---- MODULE Spec2Model ----
(***************************************************************************)
(* The identity morphism `id` and function composition `compose` of the   *)
(* cats crate (src/identity.rs, src/composition.rs, src/main.rs), with a  *)
(* caller that builds composed closures, invokes them and compares the    *)
(* outcomes the way the crate's unit tests do.                            *)
(*                                                                         *)
(* A function value is <<"prim", name>> (one of the closures the tests     *)
(* bind with `let`) or <<"comp", f, g>> (the closure `move |x| g(f(x))`    *)
(* that compose returns, owning f and g).  An outcome of a call is a       *)
(* record: ok (returned normally), val (the value returned), panic / at    *)
(* (the panic message and the function that raised it) and trace (the      *)
(* primitive functions evaluated, in evaluation order).                    *)
(***************************************************************************)
EXTENDS Integers, Sequences, FiniteSets, TLC

VARIABLES
    overflowChecks,  \* build profile: TRUE = dev (overflow panics), FALSE = release (wraps)
    fn,              \* the caller's function value under test
    pc,              \* "build" | "called" | "checked" | "id"
    arg,             \* the input of the last invocation of fn
    res,             \* the outcome of the last invocation of fn
    seen,            \* outcome of fn per input, for the inputs invoked since fn was built
    ncalls,          \* invocations of fn made so far
    sinceBuilt,      \* primitive evaluations since fn was last constructed
    rhsKind,         \* which right-hand side the caller compared with
    rhsFn,           \* the function value of the right-hand side
    rresF,           \* outcome of the direct call f(x)
    rres,            \* outcome of the right-hand side
    idarg,           \* the value given to id
    idres            \* the value id returned

vars == <<overflowChecks, fn, pc, arg, res, seen, ncalls, sinceBuilt,
          rhsKind, rhsFn, rresF, rres, idarg, idres>>

------------------------------------------------------------------------------
(* Bounds of the model *)

MaxLeaves == 3
MaxCalls == 3

------------------------------------------------------------------------------
(* i32 *)

I32_MAX == 2147483647
I32_MIN == -I32_MAX - 1
HalfMax == I32_MAX \div 2
HalfMin == -HalfMax - 1

Inputs == {-10, 5, I32_MAX, I32_MIN}

Values == { <<"i32", 42>>, <<"str", "hello">>, <<"vec", <<1, 2, 3>>>>,
            <<"bool", TRUE>>, <<"i32", I32_MIN>> }

------------------------------------------------------------------------------
(* Outcomes *)

Returned(v, name) ==
    [ok |-> TRUE, val |-> v, panic |-> "", at |-> "", trace |-> <<name>>]

Panicked(msg, name) ==
    [ok |-> FALSE, val |-> 0, panic |-> msg, at |-> name, trace |-> <<name>>]

NoRes == [ok |-> FALSE, val |-> 0, panic |-> "", at |-> "", trace |-> <<>>]

\* What the caller of a function observes: the value or the panic.
Outcome(r) == [ok |-> r.ok, val |-> r.val, panic |-> r.panic, at |-> r.at]

------------------------------------------------------------------------------
(* identity.rs *)

id_default(x) == <<x[1], 0>>

id(x) == x

------------------------------------------------------------------------------
(* The closures the tests and main bind *)

\* |x: i32| x + 1
add_one(x) ==
    IF x = I32_MAX
    THEN IF overflowChecks
         THEN Panicked("attempt to add with overflow", "add_one")
         ELSE Returned(I32_MIN, "add_one")
    ELSE Returned(x + 1, "add_one")

\* |x: i32| x * 2
multiply_two(x) ==
    IF x > HalfMax
    THEN IF overflowChecks
         THEN Panicked("attempt to multiply with overflow", "multiply_two")
         ELSE Returned((x - HalfMax - 1) * 2 + I32_MIN, "multiply_two")
    ELSE IF x < HalfMin
    THEN IF overflowChecks
         THEN Panicked("attempt to multiply with overflow", "multiply_two")
         ELSE Returned(((x - HalfMin) * 2 + I32_MAX) + 1, "multiply_two")
    ELSE Returned(x * 2, "multiply_two")

\* |x: i32| x - 3
sub_three(x) ==
    IF x < I32_MIN + 3
    THEN IF overflowChecks
         THEN Panicked("attempt to subtract with overflow", "sub_three")
         ELSE Returned((I32_MAX - 2) + (x - I32_MIN), "sub_three")
    ELSE Returned(x - 3, "sub_three")

PrimNames == {"id", "add_one", "multiply_two", "sub_three"}

PrimFns == { <<"prim", n>> : n \in PrimNames }

Id == <<"prim", "id">>

ApplyPrim(name, x) ==
    CASE name = "id" -> Returned(id(<<"i32", x>>)[2], "id")
      [] name = "add_one" -> add_one(x)
      [] name = "multiply_two" -> multiply_two(x)
      [] name = "sub_three" -> sub_three(x)

------------------------------------------------------------------------------
(* composition.rs *)

compose_eager(f, g) ==
    [fn |-> <<"comp", f, g>>, evals |-> <<"f">>]

\* compose(f, g): builds the closure, evaluating nothing.
compose(f, g) ==
    [fn |-> <<"comp", f, g>>, evals |-> <<>>]

RECURSIVE Call(_, _)

ClosureBodyGFirst(f, g, x) ==
    LET r1 == Call(g, x)
    IN  IF ~r1.ok THEN r1
        ELSE LET r2 == Call(f, r1.val)
             IN  [r2 EXCEPT !.trace = r1.trace \o r2.trace]

ClosureBodyTwice(f, g, x) ==
    LET r0 == Call(f, x)
    IN  IF ~r0.ok THEN r0
        ELSE LET r1 == Call(f, r0.val)
             IN  IF ~r1.ok THEN [r1 EXCEPT !.trace = r0.trace \o r1.trace]
                 ELSE LET r2 == Call(g, r1.val)
                      IN  [r2 EXCEPT !.trace = r0.trace \o r1.trace \o r2.trace]

ClosureBodyOnlyG(f, g, x) == Call(g, x)

ClosureBodyOnlyF(f, g, x) == Call(f, x)

ClosureBodySuppress(f, g, x) ==
    LET r1 == Call(f, x)
    IN  IF ~r1.ok THEN [r1 EXCEPT !.ok = TRUE, !.panic = "", !.at = ""]
        ELSE LET r2 == Call(g, r1.val)
             IN  IF ~r2.ok
                 THEN [ok |-> TRUE, val |-> 0, panic |-> "", at |-> "",
                       trace |-> r1.trace \o r2.trace]
                 ELSE [r2 EXCEPT !.trace = r1.trace \o r2.trace]

\* move |x| g(f(x)): f is called on x; a panic in f unwinds through the
\* closure; otherwise g is called on f's value and its outcome is the closure's.
ClosureBody(f, g, x) ==
    LET r1 == Call(f, x)
    IN  IF ~r1.ok THEN r1
        ELSE LET r2 == Call(g, r1.val)
             IN  [r2 EXCEPT !.trace = r1.trace \o r2.trace]

\* Calling a function value.
Call(c, x) ==
    IF c[1] = "prim" THEN ApplyPrim(c[2], x) ELSE ClosureBody(c[2], c[3], x)

CalledConsumed(c) == Id

\* The returned closure is `impl Fn`: a call borrows it and leaves it as it was.
CalledByRef(c) == c

RECURSIVE Leaves(_)
Leaves(c) == IF c[1] = "prim" THEN 1 ELSE Leaves(c[2]) + Leaves(c[3])

\* The primitive functions of a function value, first-applied first.
RECURSIVE Flatten(_)
Flatten(c) == IF c[1] = "prim" THEN <<c[2]>> ELSE Flatten(c[2]) \o Flatten(c[3])

IsComp(c) == c[1] = "comp"

AddOne == <<"prim", "add_one">>
MultiplyTwo == <<"prim", "multiply_two">>
SubThree == <<"prim", "sub_three">>

------------------------------------------------------------------------------
(* The caller *)

Init ==
    /\ overflowChecks \in BOOLEAN
    /\ fn \in PrimFns
    /\ pc = "build"
    /\ arg = 0
    /\ res = NoRes
    /\ seen = [y \in Inputs |-> NoRes]
    /\ ncalls = 0
    /\ sinceBuilt = 0
    /\ rhsKind = "none"
    /\ rhsFn = Id
    /\ rresF = NoRes
    /\ rres = NoRes
    /\ idarg = <<"i32", 0>>
    /\ idres = <<"i32", 0>>

\* let c = compose(u, v), with u and v among the closures the caller holds.
Compose(u, v) ==
    /\ pc \in {"build", "called"}
    /\ LET c == compose(u, v)
       IN  /\ Leaves(c.fn) <= MaxLeaves
           /\ fn' = c.fn
           /\ sinceBuilt' = Len(c.evals)
    /\ pc' = "build"
    /\ arg' = 0
    /\ res' = NoRes
    /\ seen' = [y \in Inputs |-> NoRes]
    /\ UNCHANGED <<overflowChecks, ncalls, rhsKind, rhsFn, rresF, rres, idarg, idres>>

\* fn(y)
Invoke(y) ==
    /\ pc \in {"build", "called"}
    /\ ncalls < MaxCalls
    /\ LET r == Call(fn, y)
       IN  /\ res' = r
           /\ seen' = [seen EXCEPT ![y] = r]
           /\ sinceBuilt' = sinceBuilt + Len(r.trace)
    /\ arg' = y
    /\ fn' = CalledByRef(fn)
    /\ ncalls' = ncalls + 1
    /\ pc' = "called"
    /\ UNCHANGED <<overflowChecks, rhsKind, rhsFn, rresF, rres, idarg, idres>>

\* With fn = compose(f, g): the direct calls g(f(x)).
CheckNested ==
    /\ pc = "called"
    /\ IsComp(fn)
    /\ LET r1 == Call(fn[2], arg)
       IN  /\ rresF' = r1
           /\ rres' = IF ~r1.ok THEN r1
                      ELSE LET r2 == Call(fn[3], r1.val)
                           IN  [r2 EXCEPT !.trace = r1.trace \o r2.trace]
    /\ rhsKind' = "nested"
    /\ rhsFn' = fn[3]
    /\ pc' = "checked"
    /\ UNCHANGED <<overflowChecks, fn, arg, res, seen, ncalls, sinceBuilt, idarg, idres>>

\* With fn = compose(f, g): the direct call g(x).
CheckRight ==
    /\ pc = "called"
    /\ IsComp(fn)
    /\ rres' = Call(fn[3], arg)
    /\ rresF' = NoRes
    /\ rhsKind' = "right"
    /\ rhsFn' = fn[3]
    /\ pc' = "checked"
    /\ UNCHANGED <<overflowChecks, fn, arg, res, seen, ncalls, sinceBuilt, idarg, idres>>

\* With fn = compose(compose(f, g), h): compose(f, compose(g, h))(x).
CheckRegroup ==
    /\ pc = "called"
    /\ IsComp(fn)
    /\ IsComp(fn[2])
    /\ LET inner == compose(fn[2][3], fn[3])
           outer == compose(fn[2][2], inner.fn)
       IN  /\ rhsFn' = outer.fn
           /\ rres' = Call(outer.fn, arg)
    /\ rresF' = NoRes
    /\ rhsKind' = "regroup"
    /\ pc' = "checked"
    /\ UNCHANGED <<overflowChecks, fn, arg, res, seen, ncalls, sinceBuilt, idarg, idres>>

\* id(v)
IdDemo(v) ==
    /\ pc = "build"
    /\ ncalls = 0
    /\ ~IsComp(fn)
    /\ idarg' = v
    /\ idres' = id(v)
    /\ pc' = "id"
    /\ UNCHANGED <<overflowChecks, fn, arg, res, seen, ncalls, sinceBuilt,
                   rhsKind, rhsFn, rresF, rres>>

Next ==
    \/ \E u \in PrimFns \cup {fn}, v \in PrimFns \cup {fn} : Compose(u, v)
    \/ \E y \in Inputs : Invoke(y)
    \/ CheckNested
    \/ CheckRight
    \/ CheckRegroup
    \/ \E v \in Values : IdDemo(v)

Spec == Init /\ [][Next]_vars

------------------------------------------------------------------------------
(* Properties *)

Invoked == pc \in {"called", "checked"}

Compared(kind) == pc = "checked" /\ rhsKind = kind

\* C1: invoking compose(f, g) on x has the outcome of the direct calls
\* g(f(x)): f is applied first, g to f's result; with f = x + 1 and
\* g = x * 2, compose(f, g)(5) is 12.
C1_ComposeIsGAfterF ==
    /\ Compared("nested") => res = rres
    /\ (Invoked /\ fn = <<"comp", AddOne, MultiplyTwo>> /\ arg = 5)
          => (res.ok /\ res.val = 12)

C1_Witness ==
    /\ Compared("nested")
    /\ fn = <<"comp", AddOne, MultiplyTwo>>
    /\ arg = 5
    /\ res.val = 12
    /\ rres.val = 12

\* C2: compose(compose(f, g), h)(x) and compose(f, compose(g, h))(x) have the
\* same outcome, for all f, g, h and x.
C2_Associative ==
    Compared("regroup") => Outcome(res) = Outcome(rres)

C2_Witness ==
    /\ Compared("regroup")
    /\ fn = <<"comp", <<"comp", AddOne, MultiplyTwo>>, SubThree>>
    /\ rhsFn = <<"comp", AddOne, <<"comp", MultiplyTwo, SubThree>>>>
    /\ arg = 5
    /\ res.val = 9
    /\ rres.val = 9

\* C3: compose(f, identity)(x) has the outcome of f(x), for all f and x.
C3_IdentitySecond ==
    (Compared("nested") /\ fn[3] = Id) => Outcome(res) = Outcome(rresF)

C3_Witness ==
    /\ Compared("nested")
    /\ fn = <<"comp", AddOne, Id>>
    /\ arg = 5
    /\ res.val = 6
    /\ rresF.val = 6

\* C4: compose(identity, f)(x) has the outcome of f(x), for all f and x.
C4_IdentityFirst ==
    (Compared("right") /\ fn[2] = Id) => Outcome(res) = Outcome(rres)

C4_Witness ==
    /\ Compared("right")
    /\ fn = <<"comp", Id, MultiplyTwo>>
    /\ arg = 5
    /\ res.val = 10
    /\ rres.val = 10

\* C5: identity(x) returns exactly x, for a value of any type (integer,
\* string, sequence, boolean); no input makes it fail.
C5_IdentityReturnsInput ==
    pc = "id" => idres = idarg

C5_Witness ==
    /\ pc = "id"
    /\ idarg = <<"vec", <<1, 2, 3>>>>
    /\ idres = <<"vec", <<1, 2, 3>>>>

\* C6: compose(identity, identity)(x) returns x, which is also what the
\* direct call identity(x) returns.
C6_IdentitySelfComposition ==
    /\ (Invoked /\ fn = <<"comp", Id, Id>>) => (res.ok /\ res.val = arg)
    /\ (Compared("nested") /\ fn = <<"comp", Id, Id>>)
          => Outcome(res) = Outcome(rresF)

C6_Witness ==
    /\ Compared("nested")
    /\ fn = <<"comp", Id, Id>>
    /\ arg = I32_MAX
    /\ res.val = I32_MAX
    /\ rresF.val = I32_MAX

\* C7: constructing a composed value evaluates no function: from its
\* construction (nested constructions included) to its first invocation the
\* number of evaluations is zero.
C7_ComposeEvaluatesNothing ==
    pc = "build" => sinceBuilt = 0

C7_Witness ==
    /\ pc = "build"
    /\ IsComp(fn)
    /\ IsComp(fn[2])
    /\ sinceBuilt = 0

\* C8: a failure of f or g propagates unchanged: if f fails on x, the
\* composed value fails with f's failure; if f returns and g fails on f(x),
\* it fails with g's failure; no value is returned in either case.
C8_FailurePropagates ==
    /\ (Compared("nested") /\ ~rresF.ok)
          => (~res.ok /\ Outcome(res) = Outcome(rresF))
    /\ (Compared("nested") /\ rresF.ok /\ ~rres.ok)
          => (~res.ok /\ Outcome(res) = Outcome(rres))

C8_Witness ==
    /\ Compared("nested")
    /\ fn = <<"comp", AddOne, SubThree>>
    /\ arg = I32_MIN
    /\ rresF.ok
    /\ ~rres.ok
    /\ ~res.ok
    /\ res.panic = "attempt to subtract with overflow"
    /\ res.at = "sub_three"

\* C9 as stated: every invocation of a composed value evaluates each of its
\* functions exactly once, in order of application.
C9_Original ==
    (Invoked /\ IsComp(fn)) => res.trace = Flatten(fn)

\* C9: an invocation of a composed value that returns has evaluated each of
\* its functions exactly once, in order of application; one that fails has
\* evaluated them once each, in that order, up to the one that failed, and
\* none after it.  Both groupings of f, g, h evaluate the same functions in
\* the same order.
C9_EvaluationOrder ==
    /\ (Invoked /\ IsComp(fn) /\ res.ok) => res.trace = Flatten(fn)
    /\ (Invoked /\ IsComp(fn) /\ ~res.ok)
          => /\ Len(res.trace) >= 1
             /\ Len(res.trace) <= Leaves(fn)
             /\ res.trace = SubSeq(Flatten(fn), 1, Len(res.trace))
             /\ res.at = res.trace[Len(res.trace)]
    /\ Compared("regroup") => rres.trace = res.trace

C9_Witness ==
    /\ Compared("regroup")
    /\ res.ok
    /\ res.trace = <<"add_one", "multiply_two", "sub_three">>
    /\ rres.trace = <<"add_one", "multiply_two", "sub_three">>

====
